---- MODULE Spec2Model ----
(***************************************************************************)
(* A model of examples/text_classification/pretrained_models/deploy/       *)
(* python/predict.py: the command-line script that builds a Paddle         *)
(* inference Predictor, encodes a list of texts, runs them through the     *)
(* engine batch by batch and prints one label per text.                    *)
(*                                                                         *)
(* The tokenizer, the padding helper, softmax, argmax and the inference    *)
(* engine are libraries; they are modelled by what they are documented to  *)
(* do.  The trained network is opaque: it is a deterministic scoring       *)
(* function of the padded input tensors, selected by the parameters that   *)
(* create_predictor loads (variable predictor.weights).                    *)
(***************************************************************************)
EXTENDS Integers, Sequences, FiniteSets, TLC

VARIABLES
    args,           \* parsed command line: [batch_size, device]
    pc,             \* position of the script
    error,          \* the exception that ended the run, or "none"
    config_calls,   \* calls made on the inference Config, in order
    predictor,      \* self.predictor: the inference session
    input_handles,  \* self.input_handles
    output_handle,  \* self.output_handle
    tensors,        \* the engine's buffers behind the handles
    log,            \* calls made on the handles and the session by predict
    tokenizer,      \* the tokenizer object
    data,           \* the list of texts
    label_map,      \* class index -> label
    calls,          \* number of predict calls made so far
    examples,       \* predict: encoded examples
    batches,        \* predict: list of chunks of examples
    bi,             \* predict: number of batches taken by the for loop
    input_ids,      \* predict: padded token ids of the current batch
    segment_ids,    \* predict: padded segment ids of the current batch
    logits,         \* predict: scores read back for the current batch
    probs,          \* predict: softmax of logits
    idx,            \* predict: arg-max index per row
    results,        \* predict: labels accumulated so far
    main_results,   \* __main__: the value predict returned
    printed,        \* console output: one <<text, label>> per line
    conv            \* a direct call of convert_example: [call, result]

static_vars == <<args, conv>>
ctor_vars == <<config_calls, predictor, input_handles, output_handle>>
input_vars == <<args, tokenizer, data, label_map>>
local_vars == <<examples, batches, bi, input_ids, segment_ids, logits, probs, idx, results>>
out_vars == <<main_results, printed>>
vars == <<args, pc, error, config_calls, predictor, input_handles, output_handle,
          tensors, log, tokenizer, data, label_map, calls, examples, batches, bi,
          input_ids, segment_ids, logits, probs, idx, results, main_results, printed,
          conv>>

\* ---------------------------------------------------------------- bounds

\* Longest list of texts handed to predict.
MaxN == 3
\* Longest encoded text (stands for max_seq_length).
MaxLen == 2
\* Largest --batch_size tried; the smallest is -1.
MaxBatch == 3
\* Scores of the network range over 0 .. MaxScore.
MaxScore == 1
\* Resolution of the fixed-point softmax.
ExpScale == 64
\* Calls of predict a client makes on one Predictor (SpecReuse).
MaxCalls == 2

\* ------------------------------------------------------- input domains

Devices == {"cpu", "gpu", "xpu"}
BatchSizes == (0 - 1) .. MaxBatch
\* Pad ids a tokenizer may designate; token ids of texts are >= 11.
PadIds == {0, 5}
\* Number of classes the exported network scores.
ClassCounts == {2, 3}
\* Parameters of the network: one bias per class, relative to class 0's.
Weights == UNION {{w \in [1 .. c -> 0 .. MaxScore] : w[1] = 0} : c \in ClassCounts}
None == "None"
\* self.predictor before create_predictor has run.
NoPredictor == [created |-> FALSE, config |-> <<>>, weights |-> <<>>]
\* __main__'s name `results` before predict has returned.
Unassigned == [bound |-> FALSE, value |-> <<>>]
\* The result slot of a convert_example call that has not returned yet.
Pending == [kind |-> "pending", error |-> "none", value |-> <<>>]
InputNames == <<"input_ids", "token_type_ids">>
OutputNames == <<"logits">>

\* ------------------------------------------------------------- helpers

RECURSIVE SumSeq(_)
SumSeq(s) == IF s = <<>> THEN 0 ELSE Head(s) + SumSeq(Tail(s))

RECURSIVE MaxSeq(_)
MaxSeq(s) == IF Len(s) = 1 THEN s[1]
             ELSE LET m == MaxSeq(Tail(s)) IN IF s[1] >= m THEN s[1] ELSE m

RECURSIVE Pow2(_)
Pow2(d) == IF d = 0 THEN 1 ELSE 2 * Pow2(d - 1)

Min2(a, b) == IF a <= b THEN a ELSE b

RECURSIVE Repeat(_, _)
Repeat(v, k) == IF k <= 0 THEN <<>> ELSE <<v>> \o Repeat(v, k - 1)

\* ------------------------------------------------------- pure functions

\* The text at position i of data, with len words: word j of text i has its own id.
Text(i, len) == [j \in 1 .. len |-> 10 * j + i]

\* tokenizer(text=text, max_seq_len=...): token ids of the text, segment ids all 0.
Tokenize(text) ==
    [input_ids |-> text, token_type_ids |-> [j \in 1 .. Len(text) |-> 0]]

\* Python: label_map = {}; for (i, l) in enumerate(label_list): label_map[l] = i
DictFromList(label_list) ==
    [l \in {label_list[i] : i \in 1 .. Len(label_list)} |->
        CHOOSE i \in 0 .. Len(label_list) - 1 :
            /\ label_list[i + 1] = l
            /\ \A j \in 0 .. Len(label_list) - 1 : label_list[j + 1] = l => j <= i]

\* Python: list(d.values()) of a dict with keys 0 .. n-1 inserted in that order.
DictValues(d) == [i \in 1 .. Cardinality(DOMAIN d) |-> d[i - 1]]

\* The local name `label` of convert_example at line 85: the function assigns it
\* only on that line, so the read on the right-hand side finds it unbound.
Unbound == "<unbound>"
LocalLabelAtLookup == Unbound

\* convert_example(example, tokenizer, label_list, max_seq_length, is_test)
ConvertExample(example, label_list, is_test) ==
    LET encoded_inputs == Tokenize(example)
        ids == encoded_inputs.input_ids
        segs == encoded_inputs.token_type_ids
        lmap == DictFromList(label_list)
        label == LocalLabelAtLookup
    IN  IF ~is_test
        THEN IF label = Unbound
             THEN [kind |-> "raise", error |-> "UnboundLocalError", value |-> <<>>]
             ELSE IF label \notin DOMAIN lmap
                  THEN [kind |-> "raise", error |-> "KeyError", value |-> <<>>]
                  ELSE [kind |-> "return", error |-> "none",
                        value |-> <<ids, segs, <<lmap[label]>> >>]
        ELSE [kind |-> "return", error |-> "none", value |-> <<ids, segs>>]

\* paddlenlp.data.Pad(axis=0, pad_val): right-pad every row to the longest row.
PadRows(rows, pad_val) ==
    LET m == MaxSeq([i \in 1 .. Len(rows) |-> Len(rows[i])])
    IN  [i \in 1 .. Len(rows) |-> rows[i] \o Repeat(pad_val, m - Len(rows[i]))]

\* Variant: the segment ids are padded with 0 instead of the tokenizer's pad id.
BatchifyFnSegZero(samples, pad_token_id) ==
    << PadRows([i \in 1 .. Len(samples) |-> samples[i][1]], pad_token_id),
       PadRows([i \in 1 .. Len(samples) |-> samples[i][2]], 0) >>

\* batchify_fn = Tuple(Pad(pad_token_id), Pad(pad_token_id)) applied to a chunk.
BatchifyFn(samples, pad_token_id) ==
    << PadRows([i \in 1 .. Len(samples) |-> samples[i][1]], pad_token_id),
       PadRows([i \in 1 .. Len(samples) |-> samples[i][2]], pad_token_id) >>

\* Python range(start, stop, step) for step # 0, as a sequence.
RECURSIVE PyRange(_, _, _)
PyRange(start, stop, step) ==
    IF (step > 0 /\ start >= stop) \/ (step < 0 /\ start <= stop)
    THEN <<>>
    ELSE <<start>> \o PyRange(start + step, stop, step)

\* Python s[lo:hi] for 0 <= lo.
PySlice(s, lo, hi) == SubSeq(s, lo + 1, Min2(hi, Len(s)))

\* Variant: the range stops early, so a short last chunk is never built.
MakeBatchesNoTail(exs, batch_size) ==
    LET r == PyRange(0, Len(exs) - batch_size + 1, batch_size)
    IN  [b \in 1 .. Len(r) |-> PySlice(exs, r[b], r[b] + batch_size)]

\* batches = [examples[idx:idx + batch_size] for idx in range(0, len(examples), batch_size)]
MakeBatches(exs, batch_size) ==
    LET r == PyRange(0, Len(exs), batch_size)
    IN  [b \in 1 .. Len(r) |-> PySlice(exs, r[b], r[b] + batch_size)]

\* The network: one row of scores per input row, a function of the padded tensors.
Forward(weights, ids, segs) ==
    [r \in 1 .. Len(ids) |->
        [c \in 1 .. Len(weights) |->
            (weights[c] + (c - 1) * SumSeq(ids[r]) + SumSeq(segs[r])) % (MaxScore + 1)]]

\* scipy.special.softmax(logits, axis=1) in fixed point (base 2, scale ExpScale):
\* exp(x - max) / sum(exp(x - max)) per row.
SoftmaxRow(row) ==
    LET m == MaxSeq(row)
        e == [c \in 1 .. Len(row) |-> ExpScale \div Pow2(m - row[c])]
    IN  [c \in 1 .. Len(row) |-> (e[c] * ExpScale) \div SumSeq(e)]

Softmax(rows) == [r \in 1 .. Len(rows) |-> SoftmaxRow(rows[r])]

\* np.argmax over one row: scan left to right, keep the first largest (0-based).
RECURSIVE ArgMaxScan(_, _, _)
ArgMaxScan(row, c, best) ==
    IF c > Len(row) THEN best - 1
    ELSE ArgMaxScan(row, c + 1, IF row[c] > row[best] THEN c ELSE best)

\* Variant: the scan keeps the last largest value instead of the first.
RECURSIVE ArgMaxScanLast(_, _, _)
ArgMaxScanLast(row, c, best) ==
    IF c > Len(row) THEN best - 1
    ELSE ArgMaxScanLast(row, c + 1, IF row[c] >= row[best] THEN c ELSE best)

ArgMaxLast(rows) == [r \in 1 .. Len(rows) |-> ArgMaxScanLast(rows[r], 1, 1)]

ArgMax(rows) == [r \in 1 .. Len(rows) |-> ArgMaxScan(rows[r], 1, 1)]

\* Variant: the labels of a batch are put in front of the earlier ones.
ResultsPrepend(rs, labels) == labels \o rs

\* results.extend(labels)
ResultsExtend(rs, labels) == rs \o labels

\* ---------------------------------------------------------------- Init

\* args = parser.parse_args(): --batch_size is any int, --device one of three.
Init ==
    /\ args \in [batch_size : BatchSizes, device : Devices]
    /\ pc = "start"
    /\ error = "none"
    /\ config_calls = <<>>
    /\ predictor = NoPredictor
    /\ input_handles = <<>>
    /\ output_handle = None
    /\ tensors = <<>>
    /\ log = <<>>
    /\ tokenizer = None
    /\ data = <<>>
    /\ label_map = <<>>
    /\ calls = 0
    /\ examples = <<>>
    /\ batches = <<>>
    /\ bi = 0
    /\ input_ids = <<>>
    /\ segment_ids = <<>>
    /\ logits = <<>>
    /\ probs = <<>>
    /\ idx = <<>>
    /\ results = <<>>
    /\ main_results = Unassigned
    /\ printed = <<>>
    /\ conv = None

\* ----------------------------------------------------- Predictor.__init__

\* config = paddle.inference.Config(model_file, params_file)
InitConfig ==
    /\ pc = "start"
    /\ pc' = "device"
    /\ UNCHANGED <<static_vars, error, ctor_vars, tensors, log, tokenizer, data, label_map,
                   calls, local_vars, out_vars>>

\* Variant: the cpu branch is missing, so the engine keeps its default device.
DeviceCallNoCpu(device) ==
    IF device = "gpu" THEN <<"enable_use_gpu">>
    ELSE IF device = "xpu" THEN <<"enable_xpu">>
    ELSE <<>>

\* if device == "gpu": ... elif "cpu": ... elif "xpu": ...
DeviceCall(device) ==
    IF device = "gpu" THEN <<"enable_use_gpu">>
    ELSE IF device = "cpu" THEN <<"disable_gpu">>
    ELSE IF device = "xpu" THEN <<"enable_xpu">>
    ELSE <<>>

InitDevice ==
    /\ pc = "device"
    /\ config_calls' = config_calls \o DeviceCall(args.device)
    /\ pc' = "create"
    /\ UNCHANGED <<static_vars, error, predictor, input_handles, output_handle, tensors, log,
                   tokenizer, data, label_map, calls, local_vars, out_vars>>

\* config.switch_use_feed_fetch_ops(False); create_predictor(config)
InitCreate ==
    /\ pc = "create"
    /\ \E w \in Weights :
        predictor' = [created |-> TRUE,
                      config |-> config_calls \o <<"switch_use_feed_fetch_ops">>,
                      weights |-> w]
    /\ config_calls' = config_calls \o <<"switch_use_feed_fetch_ops">>
    /\ tensors' = [h \in {InputNames[1], InputNames[2], OutputNames[1]} |-> <<>>]
    /\ pc' = "handles"
    /\ UNCHANGED <<static_vars, error, input_handles, output_handle, log, tokenizer, data,
                   label_map, calls, local_vars, out_vars>>

\* input_handles = [get_input_handle(name) ...]; output_handle = get_output_handle(...[0])
InitHandles ==
    /\ pc = "handles"
    /\ input_handles' = InputNames
    /\ output_handle' = OutputNames[1]
    /\ pc' = "tokenizer"
    /\ UNCHANGED <<static_vars, error, config_calls, predictor, tensors, log, tokenizer, data,
                   label_map, calls, local_vars, out_vars>>

\* ---------------------------------------------------------------- __main__

\* tokenizer = ErnieTinyTokenizer.from_pretrained('ernie-tiny')
MainTokenizer ==
    /\ pc = "tokenizer"
    /\ \E p \in PadIds : tokenizer' = [pad_token_id |-> p]
    /\ pc' = "data"
    /\ UNCHANGED <<static_vars, error, ctor_vars, tensors, log, data, label_map, calls,
                   local_vars, out_vars>>

\* data = [...]; label_map = {0: 'negative', 1: 'positive'}
MainLabelMap == [i \in 0 .. 1 |-> IF i = 0 THEN "negative" ELSE "positive"]

MainData ==
    /\ pc = "data"
    /\ \E n \in 0 .. MaxN : \E lens \in [1 .. n -> 1 .. MaxLen] :
          data' = [i \in 1 .. n |-> Text(i, lens[i])]
    /\ label_map' = MainLabelMap
    /\ pc' = "call"
    /\ UNCHANGED <<static_vars, error, ctor_vars, tensors, log, tokenizer, calls, local_vars,
                   out_vars>>

\* results = predictor.predict(data, tokenizer, label_map, batch_size=args.batch_size)
\* entered: examples = []
MainCall ==
    /\ pc = "call"
    /\ calls' = calls + 1
    /\ examples' = <<>>
    /\ pc' = "tok"
    /\ UNCHANGED <<static_vars, error, ctor_vars, tensors, log, input_vars, batches, bi,
                   input_ids, segment_ids, logits, probs, idx, results, out_vars>>

\* ------------------------------------------------------- Predictor.predict

\* for text in data: examples.append(convert_example(text, ..., is_test=True))
PredictTokenize ==
    /\ pc = "tok"
    /\ Len(examples) < Len(data)
    /\ LET r == ConvertExample(data[Len(examples) + 1], DictValues(label_map), TRUE)
       IN  IF r.kind = "return"
           THEN /\ examples' = Append(examples, r.value)
                /\ UNCHANGED <<pc, error>>
           ELSE /\ pc' = "failed"
                /\ error' = r.error
                /\ UNCHANGED examples
    /\ UNCHANGED <<static_vars, ctor_vars, tensors, log, input_vars, calls, batches, bi,
                   input_ids, segment_ids, logits, probs, idx, results, out_vars>>

\* Variant: a zero batch size is treated as "no batches" instead of raising.
PredictBuildBatchesLenient ==
    /\ pc = "tok"
    /\ Len(examples) = Len(data)
    /\ batches' = IF args.batch_size = 0 THEN <<>>
                  ELSE MakeBatches(examples, args.batch_size)
    /\ results' = <<>>
    /\ bi' = 0
    /\ pc' = "for"
    /\ UNCHANGED <<static_vars, error, ctor_vars, tensors, log, input_vars, calls,
                   examples, input_ids, segment_ids, logits, probs, idx, out_vars>>

\* batches = [...]; results = []   (range() raises ValueError on a zero step)
PredictBuildBatches ==
    /\ pc = "tok"
    /\ Len(examples) = Len(data)
    /\ IF args.batch_size = 0
       THEN /\ pc' = "failed"
            /\ error' = "ValueError"
            /\ UNCHANGED <<batches, results, bi>>
       ELSE /\ batches' = MakeBatches(examples, args.batch_size)
            /\ results' = <<>>
            /\ bi' = 0
            /\ pc' = "for"
            /\ UNCHANGED error
    /\ UNCHANGED <<static_vars, ctor_vars, tensors, log, input_vars, calls, examples,
                   input_ids, segment_ids, logits, probs, idx, out_vars>>

\* for batch in batches: input_ids, segment_ids = batchify_fn(batch)
PredictBatchify ==
    /\ pc = "for"
    /\ bi < Len(batches)
    /\ bi' = bi + 1
    /\ LET t == BatchifyFn(batches[bi + 1], tokenizer.pad_token_id)
       IN  /\ input_ids' = t[1]
           /\ segment_ids' = t[2]
    /\ pc' = "copy0"
    /\ UNCHANGED <<static_vars, error, ctor_vars, tensors, log, input_vars, calls, examples,
                   batches, logits, probs, idx, results, out_vars>>

\* self.input_handles[0].copy_from_cpu(input_ids)
PredictCopy0 ==
    /\ pc = "copy0"
    /\ tensors' = [tensors EXCEPT ![input_handles[1]] = input_ids]
    /\ log' = Append(log, [op |-> "copy_from_cpu", handle |-> input_handles[1],
                           tensor |-> input_ids])
    /\ pc' = "copy1"
    /\ UNCHANGED <<static_vars, error, ctor_vars, input_vars, calls, local_vars, out_vars>>

\* Variant: the segment ids are copied into handle 0, over the token ids.
PredictCopy1Wrong ==
    /\ pc = "copy1"
    /\ tensors' = [tensors EXCEPT ![input_handles[1]] = segment_ids]
    /\ log' = Append(log, [op |-> "copy_from_cpu", handle |-> input_handles[1],
                           tensor |-> segment_ids])
    /\ pc' = "run"
    /\ UNCHANGED <<static_vars, error, ctor_vars, input_vars, calls, local_vars, out_vars>>

\* self.input_handles[1].copy_from_cpu(segment_ids)
PredictCopy1 ==
    /\ pc = "copy1"
    /\ tensors' = [tensors EXCEPT ![input_handles[2]] = segment_ids]
    /\ log' = Append(log, [op |-> "copy_from_cpu", handle |-> input_handles[2],
                           tensor |-> segment_ids])
    /\ pc' = "run"
    /\ UNCHANGED <<static_vars, error, ctor_vars, input_vars, calls, local_vars, out_vars>>

\* self.predictor.run(): the forward pass, which may raise
PredictRun ==
    /\ pc = "run"
    /\ log' = Append(log, [op |-> "run", handle |-> None, tensor |-> <<>>])
    /\ \/ /\ tensors' = [tensors EXCEPT ![OutputNames[1]] =
                            Forward(predictor.weights, tensors[InputNames[1]],
                                    tensors[InputNames[2]])]
          /\ pc' = "read"
          /\ UNCHANGED error
       \/ /\ pc' = "failed"
          /\ error' = "RuntimeError"
          /\ UNCHANGED tensors
    /\ UNCHANGED <<static_vars, ctor_vars, input_vars, calls, local_vars, out_vars>>

\* logits = self.output_handle.copy_to_cpu()
PredictRead ==
    /\ pc = "read"
    /\ logits' = tensors[output_handle]
    /\ log' = Append(log, [op |-> "copy_to_cpu", handle |-> output_handle,
                           tensor |-> tensors[output_handle]])
    /\ pc' = "softmax"
    /\ UNCHANGED <<static_vars, error, ctor_vars, tensors, input_vars, calls, examples, batches,
                   bi, input_ids, segment_ids, probs, idx, results, out_vars>>

\* probs = softmax(logits, axis=1)
PredictSoftmax ==
    /\ pc = "softmax"
    /\ probs' = Softmax(logits)
    /\ pc' = "argmax"
    /\ UNCHANGED <<static_vars, error, ctor_vars, tensors, log, input_vars, calls, examples,
                   batches, bi, input_ids, segment_ids, logits, idx, results, out_vars>>

\* idx = np.argmax(probs, axis=1); idx = idx.tolist()
PredictArgMax ==
    /\ pc = "argmax"
    /\ idx' = ArgMax(probs)
    /\ pc' = "labels"
    /\ UNCHANGED <<static_vars, error, ctor_vars, tensors, log, input_vars, calls, examples,
                   batches, bi, input_ids, segment_ids, logits, probs, results, out_vars>>

\* Variant: rows whose class has no label are skipped and the loop goes on.
PredictLabelsSkip ==
    /\ pc = "labels"
    /\ results' = ResultsExtend(results,
                     SelectSeq([r \in 1 .. Len(idx) |->
                                   IF idx[r] \in DOMAIN label_map
                                   THEN label_map[idx[r]] ELSE None],
                               LAMBDA l : l # None))
    /\ pc' = "for"
    /\ UNCHANGED <<static_vars, error, ctor_vars, tensors, log, input_vars, calls,
                   examples, batches, bi, input_ids, segment_ids, logits, probs, idx,
                   out_vars>>

\* labels = [label_map[i] for i in idx]; results.extend(labels)
PredictLabels ==
    /\ pc = "labels"
    /\ IF \A r \in 1 .. Len(idx) : idx[r] \in DOMAIN label_map
       THEN /\ results' = ResultsExtend(results, [r \in 1 .. Len(idx) |-> label_map[idx[r]]])
            /\ pc' = "for"
            /\ UNCHANGED error
       ELSE /\ pc' = "failed"
            /\ error' = "KeyError"
            /\ UNCHANGED results
    /\ UNCHANGED <<static_vars, ctor_vars, tensors, log, input_vars, calls, examples, batches,
                   bi, input_ids, segment_ids, logits, probs, idx, out_vars>>

\* return results, assigned to __main__'s results
PredictReturn ==
    /\ pc = "for"
    /\ bi = Len(batches)
    /\ main_results' = [bound |-> TRUE, value |-> results]
    /\ pc' = "print"
    /\ UNCHANGED <<static_vars, error, ctor_vars, tensors, log, input_vars, calls, local_vars,
                   printed>>

\* ------------------------------------------------------ __main__, printing

\* Variant: line i is paired with the label counted from the end of results.
MainPrintReversed ==
    /\ pc = "print"
    /\ Len(printed) < Len(data)
    /\ IF Len(printed) + 1 <= Len(main_results.value)
       THEN /\ printed' = Append(printed,
                             <<data[Len(printed) + 1],
                               main_results.value[Len(main_results.value) - Len(printed)]>>)
            /\ UNCHANGED <<pc, error>>
       ELSE /\ pc' = "failed"
            /\ error' = "IndexError"
            /\ UNCHANGED printed
    /\ UNCHANGED <<static_vars, ctor_vars, tensors, log, input_vars, calls, local_vars,
                   main_results>>

\* for idx, text in enumerate(data): print(... text, results[idx])
MainPrint ==
    /\ pc = "print"
    /\ Len(printed) < Len(data)
    /\ IF Len(printed) + 1 <= Len(main_results.value)
       THEN /\ printed' = Append(printed, <<data[Len(printed) + 1],
                                            main_results.value[Len(printed) + 1]>>)
            /\ UNCHANGED <<pc, error>>
       ELSE /\ pc' = "failed"
            /\ error' = "IndexError"
            /\ UNCHANGED printed
    /\ UNCHANGED <<static_vars, ctor_vars, tensors, log, input_vars, calls, local_vars,
                   main_results>>

\* the loop ends and the script exits
MainExit ==
    /\ pc = "print"
    /\ Len(printed) = Len(data)
    /\ pc' = "done"
    /\ UNCHANGED <<static_vars, error, ctor_vars, tensors, log, input_vars, calls, local_vars,
                   out_vars>>

Next ==
    \/ InitConfig
    \/ InitDevice
    \/ InitCreate
    \/ InitHandles
    \/ MainTokenizer
    \/ MainData
    \/ MainCall
    \/ PredictTokenize
    \/ PredictBuildBatches
    \/ PredictBatchify
    \/ PredictCopy0
    \/ PredictCopy1
    \/ PredictRun
    \/ PredictRead
    \/ PredictSoftmax
    \/ PredictArgMax
    \/ PredictLabels
    \/ PredictReturn
    \/ MainPrint
    \/ MainExit

Spec == Init /\ [][Next]_vars

\* ------------------------------------------- a client that reuses the Predictor

\* A second predict call on the same Predictor, with the same arguments, made
\* after the previous call returned and before anything is printed.
PredictAgain ==
    /\ pc = "print"
    /\ printed = <<>>
    /\ calls < MaxCalls
    /\ calls' = calls + 1
    /\ examples' = <<>>
    /\ pc' = "tok"
    /\ UNCHANGED <<static_vars, error, ctor_vars, tensors, log, input_vars, batches, bi,
                   input_ids, segment_ids, logits, probs, idx, results, out_vars>>

NextReuse == Next \/ PredictAgain

SpecReuse == Init /\ [][NextReuse]_vars

\* --------------------------------------------- convert_example called directly

Labels == {"negative", "positive", "neutral"}
LabelLists == UNION {[1 .. m -> {"negative", "positive"}] : m \in 0 .. 2}

\* A caller holding a text and its label calls convert_example; `label` is the
\* label the caller's example carries.
InitConvert ==
    /\ conv \in [example : {Text(1, len) : len \in 1 .. MaxLen}, label : Labels,
                 label_list : LabelLists, is_test : BOOLEAN, result : {Pending}]
    /\ args = [batch_size |-> 1, device |-> "cpu"]
    /\ pc = "convert"
    /\ error = "none"
    /\ config_calls = <<>>
    /\ predictor = NoPredictor
    /\ input_handles = <<>>
    /\ output_handle = None
    /\ tensors = <<>>
    /\ log = <<>>
    /\ tokenizer = None
    /\ data = <<>>
    /\ label_map = <<>>
    /\ calls = 0
    /\ examples = <<>>
    /\ batches = <<>>
    /\ bi = 0
    /\ input_ids = <<>>
    /\ segment_ids = <<>>
    /\ logits = <<>>
    /\ probs = <<>>
    /\ idx = <<>>
    /\ results = <<>>
    /\ main_results = Unassigned
    /\ printed = <<>>

ConvertCall ==
    /\ pc = "convert"
    /\ conv.result = Pending
    /\ conv' = [conv EXCEPT !.result =
                    ConvertExample(conv.example, conv.label_list, conv.is_test)]
    /\ UNCHANGED <<args, pc, error, ctor_vars, tensors, log, tokenizer, data, label_map,
                   calls, local_vars, out_vars>>

SpecConvert == InitConvert /\ [][ConvertCall]_vars

\* ============================================================ properties

k == args.batch_size
n == Len(data)

\* Positions of the script before predict has built its batches.
PrePcs == {"start", "device", "create", "handles", "tokenizer", "data", "call", "tok"}

\* predict has executed the list comprehension that builds batches.
Built ==
    \/ pc \in {"for", "copy0", "copy1", "run", "read", "softmax", "argmax", "labels",
               "print", "done"}
    \/ pc = "failed" /\ error \in {"RuntimeError", "KeyError", "IndexError"}

RunCount == Cardinality({p \in 1 .. Len(log) : log[p].op = "run"})

\* c (0-based) is the lowest index at which row is maximal.
IsFirstMax(row, c) ==
    /\ c + 1 \in 1 .. Len(row)
    /\ \A d \in 1 .. Len(row) : row[d] <= row[c + 1]
    /\ \A d \in 1 .. c : row[d] < row[c + 1]

\* seq extended to width m with pad.
PaddedTo(seq, m, pad) == [j \in 1 .. m |-> IF j <= Len(seq) THEN seq[j] ELSE pad]

\* The chunk of size k that holds position i of the input, and its longest text.
ChunkLo(i) == ((i - 1) \div k) * k + 1
ChunkHi(i) == Min2(ChunkLo(i) + k - 1, n)
ChunkWidth(i) ==
    CHOOSE m \in {Len(data[j]) : j \in ChunkLo(i) .. ChunkHi(i)} :
        \A j \in ChunkLo(i) .. ChunkHi(i) : Len(data[j]) <= m

\* The scores the network gives data[i] when it is fed padded to its chunk's width.
ScoresFor(i) ==
    Forward(predictor.weights,
            <<PaddedTo(Tokenize(data[i]).input_ids, ChunkWidth(i), tokenizer.pad_token_id)>>,
            <<PaddedTo(Tokenize(data[i]).token_type_ids, ChunkWidth(i),
                       tokenizer.pad_token_id)>>)[1]

\* C1: for a non-empty input and batch_size >= 1, the list predict returns has one
\* label per input text, and the label at position i is label_map at the first
\* arg-max of the scores of data[i]: nothing dropped, duplicated or reordered.
C1_OrderPreserved ==
    (main_results.bound /\ n > 0 /\ k >= 1) =>
        /\ Len(main_results.value) = n
        /\ \A i \in 1 .. n :
              \E c \in DOMAIN label_map :
                  /\ IsFirstMax(ScoresFor(i), c)
                  /\ main_results.value[i] = label_map[c]

C1_Witness ==
    /\ main_results.bound
    /\ n = 3
    /\ k = 2
    /\ main_results.value[1] # main_results.value[3]
    /\ main_results.value[2] # main_results.value[3]

RECURSIVE Flatten(_)
Flatten(ss) == IF ss = <<>> THEN <<>> ELSE Head(ss) \o Flatten(Tail(ss))

\* C2: for batch_size k >= 1 and n examples there are ceil(n/k) chunks, each a
\* contiguous slice in order, their concatenation is the example list, every chunk
\* but the last has k elements and the last has between 1 and k.
C2_Chunks ==
    (Built /\ k >= 1) =>
        /\ Len(batches) = (Len(examples) + k - 1) \div k
        /\ Flatten(batches) = examples
        /\ \A b \in 1 .. Len(batches) :
              /\ batches[b] = SubSeq(examples, (b - 1) * k + 1,
                                     (b - 1) * k + Len(batches[b]))
              /\ b < Len(batches) => Len(batches[b]) = k
              /\ Len(batches[b]) \in 1 .. k

C2_Witness ==
    /\ Built
    /\ Len(examples) = 3
    /\ k = 2
    /\ Len(batches) = 2
    /\ Len(batches[2]) = 1

\* The longest raw token sequence of chunk b.
RawWidth(b) ==
    CHOOSE m \in {Len(batches[b][r][1]) : r \in 1 .. Len(batches[b])} :
        \A r \in 1 .. Len(batches[b]) : Len(batches[b][r][1]) <= m

\* padded is raw followed by pad ids up to width m.
IsPaddedTo(padded, raw, m, pad) ==
    /\ Len(padded) = m
    /\ \A j \in 1 .. Len(raw) : padded[j] = raw[j]
    /\ \A j \in Len(raw) + 1 .. m : padded[j] = pad

\* C3: after padding, every input_ids and segment_ids row of the current batch has
\* the length of that batch's longest raw sequence, keeps its raw values in place
\* and holds tokenizer.pad_token_id at every added position.
C3_Padding ==
    (Built /\ bi >= 1) =>
        /\ Len(input_ids) = Len(batches[bi])
        /\ Len(segment_ids) = Len(batches[bi])
        /\ \A r \in 1 .. Len(batches[bi]) :
              /\ IsPaddedTo(input_ids[r], batches[bi][r][1], RawWidth(bi),
                            tokenizer.pad_token_id)
              /\ IsPaddedTo(segment_ids[r], batches[bi][r][2], RawWidth(bi),
                            tokenizer.pad_token_id)

C3_Witness ==
    /\ pc = "copy0"
    /\ bi = 1
    /\ Len(batches) = 2
    /\ tokenizer.pad_token_id = 5
    /\ RawWidth(2) < RawWidth(1)
    /\ \E r \in 1 .. Len(batches[1]) : Len(batches[1][r][1]) < Len(input_ids[r])

\* idx holds the arg-max of the scores in logits (not between a read and the
\* next arg-max).
Decoded == Built /\ bi >= 1 /\ Len(idx) > 0 /\ pc \notin {"read", "softmax", "argmax"}

\* C4: for every row of scores the chosen index is one where the row is maximal,
\* the lowest one on a tie (in the scores and in their softmax), and the labels
\* appended for the batch are label_map at those indices.
C4_ArgMax ==
    /\ Decoded =>
          /\ Len(idx) = Len(logits)
          /\ \A r \in 1 .. Len(logits) :
                IsFirstMax(logits[r], idx[r]) /\ IsFirstMax(probs[r], idx[r])
    /\ (Decoded /\ pc \in {"for", "print", "done"}) =>
          /\ Len(results) >= Len(idx)
          /\ \A r \in 1 .. Len(idx) :
                results[Len(results) - Len(idx) + r] = label_map[idx[r]]

C4_Witness ==
    /\ pc = "for"
    /\ Decoded
    /\ Len(idx) = 2
    /\ idx[1] = 0
    /\ logits[1][1] = logits[1][2]
    /\ idx[2] = 1

\* C5: with label_map {0: negative, 1: positive}, batch_size 2 and 3 texts, predict
\* returns 3 labels, each negative or positive, and the script prints one line per
\* text, in order, line i pairing data[i] with results[i].
C5_EndToEnd ==
    (n = 3 /\ k = 2) =>
        /\ label_map[0] = "negative" /\ label_map[1] = "positive"
        /\ main_results.bound =>
              /\ Len(main_results.value) = 3
              /\ \A i \in 1 .. 3 : main_results.value[i] \in {"negative", "positive"}
        /\ Len(printed) <= 3
        /\ \A i \in 1 .. Len(printed) : printed[i] = <<data[i], main_results.value[i]>>
        /\ pc = "done" => Len(printed) = 3

C5_Witness ==
    /\ pc = "done"
    /\ n = 3
    /\ k = 2
    /\ Len(printed) = 3
    /\ printed[1][2] # printed[3][2]

\* Entry p of the call log of one predict call, as the step sequence prescribes.
ExpectedEntry(p) ==
    LET b == ((p - 1) \div 4) + 1
        q == (p - 1) % 4
        t == BatchifyFn(batches[b], tokenizer.pad_token_id)
    IN  IF q = 0 THEN [op |-> "copy_from_cpu", handle |-> input_handles[1], tensor |-> t[1]]
        ELSE IF q = 1 THEN [op |-> "copy_from_cpu", handle |-> input_handles[2],
                            tensor |-> t[2]]
        ELSE IF q = 2 THEN [op |-> "run", handle |-> None, tensor |-> <<>>]
        ELSE [op |-> "copy_to_cpu", handle |-> output_handle,
              tensor |-> Forward(predictor.weights, t[1], t[2])]

\* C7: every batch goes through copy into handle 0, copy into handle 1, one run,
\* one read, in that order, batch after batch in list order; when predict returns
\* the number of forward passes is the number of batches (ceil(n/k) for k >= 1),
\* and none for an empty input.
C7_StepOrder ==
    /\ Built => /\ Len(log) <= 4 * Len(batches)
                /\ \A p \in 1 .. Len(log) : log[p] = ExpectedEntry(p)
                /\ pc = "for" => Len(log) = 4 * bi
    /\ ~Built => log = <<>>
    /\ main_results.bound =>
          /\ Len(log) = 4 * Len(batches)
          /\ RunCount = Len(batches)
          /\ k >= 1 => RunCount = (n + k - 1) \div k
          /\ n = 0 => RunCount = 0

C7_Witness ==
    /\ main_results.bound
    /\ Len(batches) = 2
    /\ Len(log) = 8
    /\ log[5].tensor # log[1].tensor

RECURSIVE SumLens(_)
SumLens(ss) == IF ss = <<>> THEN 0 ELSE Len(Head(ss)) + SumLens(Tail(ss))

\* C8: a forward pass that raises, or an arg-max index without a label, ends the
\* run: nothing is retried, no later batch runs, predict returns nothing, the
\* labels of earlier batches are not reported and no line is printed.
C8_FailureStops ==
    /\ error # "none" => pc = "failed"
    /\ (pc \in {"for", "print", "done"} /\ Built /\ bi >= 1) =>
          \A r \in 1 .. Len(idx) : idx[r] \in DOMAIN label_map
    /\ (pc = "failed" /\ error \in {"RuntimeError", "KeyError"}) =>
          /\ ~main_results.bound
          /\ printed = <<>>
          /\ ~ENABLED Next
          /\ RunCount = bi
          /\ Len(results) = SumLens(SubSeq(batches, 1, bi - 1))

C8_Witness ==
    /\ pc = "failed"
    /\ error = "KeyError"
    /\ bi = 2
    /\ Len(results) = 2
    /\ ~main_results.bound

ExpectedDeviceCall(device) ==
    CASE device = "gpu" -> "enable_use_gpu"
      [] device = "cpu" -> "disable_gpu"
      [] device = "xpu" -> "enable_xpu"

DeviceCallNames == {"enable_use_gpu", "disable_gpu", "enable_xpu"}

\* C9: exactly one device call, the one matching --device, is made, before the
\* session is created; the handles are fetched at construction; and no step of
\* predict, in any call, changes the configuration, the session or the handles.
C9_DeviceOnce ==
    /\ [](/\ Cardinality({p \in 1 .. Len(config_calls) :
                            config_calls[p] \in DeviceCallNames}) <= 1
          /\ pc \in {"start", "device"} => ~predictor.created /\ config_calls = <<>>
          /\ pc = "create" => /\ ~predictor.created
                              /\ config_calls = <<ExpectedDeviceCall(args.device)>>
          /\ predictor.created =>
                /\ predictor.config = <<ExpectedDeviceCall(args.device),
                                        "switch_use_feed_fetch_ops">>
                /\ config_calls = predictor.config
          /\ calls >= 1 => /\ predictor.created
                           /\ input_handles = InputNames
                           /\ output_handle = OutputNames[1])
    /\ [][/\ predictor.created => UNCHANGED <<predictor, config_calls>>
          /\ input_handles # <<>> => UNCHANGED <<input_handles, output_handle>>
          /\ calls >= 1 => UNCHANGED ctor_vars]_vars

C9_Witness ==
    /\ calls = 2
    /\ pc = "done"
    /\ args.device = "cpu"
    /\ RunCount = 4

\* C10: batch_size is not validated.  With 0, predict raises while building the
\* batches, after every text was encoded and before any forward pass.  With a
\* negative value it builds no batch, runs no forward pass and returns an empty
\* list, and for a non-empty input the script fails on results[0], printing nothing.
C10_BadBatchSize ==
    /\ (k = 0 /\ pc \notin PrePcs) =>
          /\ pc = "failed"
          /\ error = "ValueError"
          /\ Len(examples) = n
          /\ log = <<>>
          /\ ~main_results.bound
          /\ printed = <<>>
    /\ k < 0 =>
          /\ pc \notin PrePcs => batches = <<>>
          /\ log = <<>>
          /\ main_results.bound => main_results.value = <<>>
          /\ pc = "failed" => /\ error = "IndexError"
                              /\ main_results.bound
                              /\ n > 0
          /\ n > 0 => printed = <<>> /\ pc # "done"

C10_Witness ==
    /\ k < 0
    /\ n = 3
    /\ pc = "failed"
    /\ error = "IndexError"
    /\ main_results.value = <<>>

\* Exceptions that are lookup errors in Python.
LookupErrors == {"KeyError", "IndexError"}

\* C6: with is_test=False convert_example fails with a lookup error when the label
\* is absent from label_list and otherwise returns (input_ids, segment_ids, label)
\* with label the index of the example's label; with is_test=True it returns only
\* (input_ids, segment_ids).
C6_ConvertExample ==
    conv.result # Pending =>
        IF conv.is_test
        THEN /\ conv.result.kind = "return"
             /\ conv.result.value = <<Tokenize(conv.example).input_ids,
                                      Tokenize(conv.example).token_type_ids>>
        ELSE IF \E i \in 1 .. Len(conv.label_list) : conv.label_list[i] = conv.label
             THEN /\ conv.result.kind = "return"
                  /\ Len(conv.result.value) = 3
                  /\ conv.result.value[3] =
                        <<DictFromList(conv.label_list)[conv.label]>>
             ELSE /\ conv.result.kind = "raise"
                  /\ conv.result.error \in LookupErrors

====
